---------------------------- MODULE Spec2Model ----------------------------
(***************************************************************************)
(* A model of the videocrc element of src/gstvideocrc.c: the GstVideocrc   *)
(* instance (its fields), the property setters, the lifecycle hooks start  *)
(* and stop, format negotiation (set_info) and the per-frame step          *)
(* (transform_frame_ip), with the CRC computed in 32-bit unsigned          *)
(* arithmetic as the code computes it.                                     *)
(*                                                                         *)
(* Two specifications share the same state and the same actions:           *)
(*   Spec        the lifecycle and the properties: one thread changes the  *)
(*               element's state (start/stop run inside the transition),   *)
(*               another sets "crc-mask" or runs gst_videocrc_set_location *)
(*               step by step, and frames flow while the element streams;  *)
(*   SpecEngine  the checksum engine of a streaming element: format        *)
(*               negotiation and frames of every negotiated geometry.      *)
(***************************************************************************)
EXTENDS Integers, Sequences, FiniteSets, TLC

(* ------------------------------ bounds --------------------------------- *)
\* widths negotiated: 0..MaxWidth
MaxWidth == 3
\* heights negotiated: 0..MaxHeight
MaxHeight == 4
\* frames processed in one behaviour
MaxFrames == 2

(* --------------------------- program constants ------------------------- *)
WIDTH == 32
ALIGN128 == 128
ALIGN32 == 32
\* a 32-bit unsigned word is the tuple of its WIDTH / 8 bytes, most significant
\* first (TLC's integers do not reach 2^32)
Bytes32 == WIDTH \div 8
\* 0x04C11DB7
GST_VIDEO_DEFAULT_CRC_MASK == <<4, 193, 29, 183>>
Zero32 == [k \in 1..Bytes32 |-> 0]

\* ALIGN(num, to): (((num) + (to-1)) & (~(to-1))), to a power of two, num >= 0
ALIGN(num, to) == ((num + (to - 1)) \div to) * to

(* ------------------------ 32-bit unsigned arithmetic ------------------- *)
RECURSIVE XorBits(_, _, _)
XorBits(a, b, n) ==
  IF n = 0 THEN 0
  ELSE ((a + b) % 2) + 2 * XorBits(a \div 2, b \div 2, n - 1)

\* the exclusive-or of two bytes, tabulated once
XorByte == [a \in 0..255 |-> [b \in 0..255 |-> XorBits(a, b, 8)]]

\* a ^ b
Xor32(a, b) == [k \in 1..Bytes32 |-> XorByte[a[k]][b[k]]]
\* x << 1: each byte takes the top bit of the next one; the top bit is lost
Shl1(x) ==
  [k \in 1..Bytes32 |->
     ((x[k] * 2) % 256) + (IF k < Bytes32 THEN x[k + 1] \div 128 ELSE 0)]
\* x << 8: the top byte is lost
Shl8(x) == [k \in 1..Bytes32 |-> IF k < Bytes32 THEN x[k + 1] ELSE 0]
\* x >> 24: the top byte
Shr24(x) == x[1]
\* x & TOPBIT, TOPBIT = 1 << (WIDTH - 1)
TopBitSet(x) == x[1] >= 128
\* ~x
Not32(x) == [k \in 1..Bytes32 |-> 255 - x[k]]

(* ----------------------- polynomial table generator -------------------- *)
\* the inner loop of gst_videocrc_init_crc32bit_table: j more bits to go
RECURSIVE Remainder(_, _, _)
Remainder(remainder, polynomial, j) ==
  IF j = 0 THEN remainder
  ELSE Remainder(IF TopBitSet(remainder)
                   THEN Xor32(Shl1(remainder), polynomial)
                   ELSE Shl1(remainder),
                 polynomial, j - 1)

\* the table gst_videocrc_init_crc32bit_table stores for a polynomial:
\* remainder = i << (WIDTH - 8), then eight steps
gst_videocrc_init_crc32bit_table(polynomial) ==
  [i \in 0..255 |->
     Remainder([k \in 1..Bytes32 |-> IF k = 1 THEN i ELSE 0], polynomial, 8)]

\* values the application gives the crc-mask property: 0x04C11DB7, 0x1EDC6F41
Masks == {GST_VIDEO_DEFAULT_CRC_MASK, <<30, 220, 111, 65>>}

\* the tables of those polynomials, generated once
TableOf == [p \in Masks |-> gst_videocrc_init_crc32bit_table(p)]

(* ---------------------------- checksum engine -------------------------- *)
\* one byte folded into the accumulator:
\*   crc_pos = ((CRC >> 24) ^ b) & 0xFF;  CRC = (CRC << 8) ^ CRC32Table[crc_pos]
CrcByte(CRC, b, CRC32Table) ==
  LET crc_pos == XorByte[Shr24(CRC)][b]
  IN  Xor32(Shl8(CRC), CRC32Table[crc_pos])

\* the bytes of a sequence folded in order, from position n on
RECURSIVE CrcFold(_, _, _, _)
CrcFold(CRC, bytes, n, CRC32Table) ==
  IF n > Len(bytes) THEN CRC
  ELSE CrcFold(CrcByte(CRC, bytes[n], CRC32Table), bytes, n + 1, CRC32Table)

\* one pass of the code: a loop over a plane (or the whole buffer), then CRC = ~CRC
CrcPass(CRC, bytes, CRC32Table) == Not32(CrcFold(CRC, bytes, 1, CRC32Table))

(* ------------------------- the planar traversal ------------------------ *)
\* the offsets the luma loops read, in order:
\*   for (i = 0; i < height; i++) for (j = 0, k = 0; j < width >> 1; j++)
\*     buf_ptr[i * stride_w + k++], buf_ptr[i * stride_w + k++]
LumaOffsets(w, h, sw) ==
  LET perRow == 2 * (w \div 2)
  IN  [n \in 1..(h * perRow) |->
         LET i == (n - 1) \div perRow
             k == (n - 1) % perRow
         IN  i * sw + k]

\* the chroma plane taken at the offset format negotiation stored
ChromaBase_Negotiated(sw, sh, plane1) == plane1

\* the start of the interleaved chroma plane the code reads from:
\* stride_w * stride_h, whatever offset set_info stored
ChromaBase(sw, sh, plane1) == sw * sh

\* the offsets the Cb loops read, in order:
\*   for (i = 0; i < height / 2; i++) for (j = 0; j < width; j += 2)
\*     buf_ptr[stride_w * stride_h + i * stride_w + j]
CbOffsets(w, h, sw, sh, plane1) ==
  LET perRow == (w + 1) \div 2
  IN  [n \in 1..((h \div 2) * perRow) |->
         LET i == (n - 1) \div perRow
             j == 2 * ((n - 1) % perRow)
         IN  ChromaBase(sw, sh, plane1) + i * sw + j]

\* the offsets the Cr loops read: the same traversal, at j + 1
CrOffsets(w, h, sw, sh, plane1) ==
  LET cb == CbOffsets(w, h, sw, sh, plane1)
  IN  [n \in 1..Len(cb) |-> cb[n] + 1]

\* the offsets the linear loop reads: for (i = 0; i < map_info.size; i++)
LinearOffsets(mapsize) == [n \in 1..mapsize |-> n - 1]

(* ------------------------------- inputs -------------------------------- *)
NULL == "NULL"
\* a pointer that was freed and not yet replaced
DANGLING == "DANGLING"
\* paths the application gives the location property
Locations == {"a.crc", "b.crc"}

Streaming == {"PAUSED", "PLAYING"}

\* a view large enough for every geometry negotiated here
FullView == (ALIGN(MaxWidth, ALIGN128) * ALIGN(MaxHeight, ALIGN32) * 3) \div 2
\* ion_meta->size of a hardware buffer: too small for a frame, or large enough
IonSizes == {1, FullView}
\* the size of a linear buffer: empty, or two bytes
LinearSizes == {0, 2}
\* frame contents: the byte at offset o of frame d
FrameData == {0, 1}
FrameByte(d, o) == (d * (o + 1)) % 256
\* what a read outside a mapped view returns when it does not fault
Garbage == {0, 255}

\* what a negotiated NV12 format reports (the video library's layout: rows
\* rounded up to 4 bytes, heights to 2): the offset of the second plane,
\* GST_VIDEO_INFO_PLANE_OFFSET (in_info, 1), and GST_VIDEO_INFO_SIZE (in_info)
InfoPlaneOffset(w, h) == (((w + 3) \div 4) * 4) * (((h + 1) \div 2) * 2)
InfoSize(w, h) == (InfoPlaneOffset(w, h) * 3) \div 2

(* -------------------------------- state -------------------------------- *)
VARIABLES
  crc_mask,        \* videocrc->crc_mask
  crc32bit_table,  \* videocrc->crc32bit_table, held as the polynomial it was
                   \* generated from: the array is TableOf[crc32bit_table]
  frame_num,       \* videocrc->frame_num
  crc,             \* videocrc->crc
  logfile,         \* videocrc->logfile: NULL, or the path the open handle writes
  filename,        \* videocrc->filename: NULL, a path, or DANGLING
  width, height, stride_w, stride_h, offset, size,   \* geometry fields
  state,           \* GST_STATE (videocrc)
  object_lock,     \* GST_OBJECT_LOCK (videocrc) is held
  sl_pc,           \* where gst_videocrc_set_location stands
  sl_state,        \* its local: state
  sl_location,     \* its argument: location
  sl_ret,          \* what its last call returned
  written,         \* the record lines written through the open handle
  trace,           \* the record lines written to the diagnostic channel
  mapped,          \* the number of views mapped and not unmapped
  open_handles,    \* the number of FILE handles opened and not closed
  run,             \* what the last start saw and did
  call,            \* what the last transform_frame_ip saw and did
  proc             \* "running", or "crashed" once undefined behaviour faulted

geometry == <<width, height, stride_w, stride_h, offset, size>>
setloc == <<sl_pc, sl_state, sl_location, sl_ret>>
engine == <<crc_mask, crc32bit_table, frame_num, crc>>
vars == <<crc_mask, crc32bit_table, frame_num, crc, logfile, filename,
          width, height, stride_w, stride_h, offset, size,
          state, object_lock, sl_pc, sl_state, sl_location, sl_ret,
          written, trace, mapped, open_handles, run, call, proc>>

NoCall ==
  [path |-> "none", map_ok |-> FALSE, vsize |-> 0,
   width |-> 0, height |-> 0, stride_w |-> 0, stride_h |-> 0, offset |-> 0,
   luma |-> <<>>, cb |-> <<>>, cr |-> <<>>, linear |-> <<>>,
   released |-> FALSE, ret |-> "none", emitted |-> FALSE, logged |-> FALSE]

NoRun == [dest |-> NULL, fopen_ok |-> FALSE, base |-> 0]

\* gst_videocrc_init: reset, then the table generated from the mask reset
\* stored; the fields reset does not set are zero in a new instance
Init ==
  /\ crc_mask = GST_VIDEO_DEFAULT_CRC_MASK
  /\ frame_num = 0
  /\ crc = Zero32
  /\ logfile = NULL
  /\ crc32bit_table = crc_mask
  /\ filename = NULL
  /\ width = 0 /\ height = 0 /\ stride_w = 0 /\ stride_h = 0
  /\ offset = 0 /\ size = 0
  /\ state = "NULL"
  /\ object_lock = FALSE
  /\ sl_pc = "idle" /\ sl_state = "NULL" /\ sl_location = NULL /\ sl_ret = "none"
  /\ written = <<>>
  /\ trace = <<>>
  /\ mapped = 0
  /\ open_handles = 0
  /\ run = NoRun
  /\ call = NoCall
  /\ proc = "running"

(* ------------------------- the location property ---------------------- *)
\* the check with READY and PAUSED confused: only PLAYING is refused
WrongState_PausedAllowed(st) == st # "READY" /\ st # "NULL" /\ st # "PAUSED"

\* if (state != GST_STATE_READY && state != GST_STATE_NULL) goto wrong_state;
WrongState(st) == st # "READY" /\ st # "NULL"

\* set_property (PROP_LOCATION) enters gst_videocrc_set_location:
\*   GST_OBJECT_LOCK (videocrc); state = GST_STATE (videocrc);
SetLocationLock ==
  /\ proc = "running"
  /\ sl_pc = "idle"
  /\ object_lock = FALSE
  /\ \E location \in Locations \cup {NULL} : sl_location' = location
  /\ object_lock' = TRUE
  /\ sl_state' = state
  /\ sl_pc' = "locked"
  /\ UNCHANGED <<engine, logfile, filename, geometry, state, sl_ret, written,
                 trace, mapped, open_handles, run, call, proc>>

\* the state check, and GST_OBJECT_UNLOCK on either branch: wrong_state returns
\* FALSE (the locals end with the call), otherwise the function goes on
\* without the lock
SetLocationCheck ==
  /\ proc = "running"
  /\ sl_pc = "locked"
  /\ object_lock' = FALSE
  /\ IF WrongState(sl_state)
       THEN /\ sl_pc' = "idle" /\ sl_ret' = "FALSE"
            /\ sl_state' = "NULL" /\ sl_location' = NULL
       ELSE /\ sl_pc' = "free" /\ sl_ret' = sl_ret
            /\ UNCHANGED <<sl_state, sl_location>>
  /\ UNCHANGED <<engine, logfile, filename, geometry, state, written, trace,
                 mapped, open_handles, run, call, proc>>

\* g_free (videocrc->filename): the field keeps the freed pointer
SetLocationFree ==
  /\ proc = "running"
  /\ sl_pc = "free"
  /\ filename' = IF filename = NULL THEN NULL ELSE DANGLING
  /\ sl_pc' = "store"
  /\ UNCHANGED <<engine, logfile, geometry, state, object_lock, sl_state,
                 sl_location, sl_ret, written, trace, mapped, open_handles, run,
                 call, proc>>

\* filename = NULL, or filename = g_strdup (location); return TRUE
SetLocationStore ==
  /\ proc = "running"
  /\ sl_pc = "store"
  /\ filename' = sl_location
  /\ sl_ret' = "TRUE"
  /\ sl_pc' = "idle"
  /\ sl_state' = "NULL" /\ sl_location' = NULL
  /\ UNCHANGED <<engine, logfile, geometry, state, object_lock, written,
                 trace, mapped, open_handles, run, call, proc>>

(* ------------------------- the crc-mask property ----------------------- *)
\* set_property (PROP_CRC_MASK): videocrc->crc_mask = g_value_get_uint (value)
SetCrcMask ==
  /\ proc = "running"
  /\ \E value \in Masks : crc_mask' = value
  /\ UNCHANGED <<crc32bit_table, frame_num, crc, logfile, filename, geometry,
                 state, object_lock, setloc, written, trace, mapped,
                 open_handles, run, call, proc>>

(* ---------------------------- start and stop --------------------------- *)
\* gst_videocrc_start: fopen (filename, "w+") when a filename is stored; fopen
\* truncates the file, or fails and returns NULL. A freed filename is read
\* by fopen: undefined behaviour, which faults, fails or opens some path.
gst_videocrc_start ==
  /\ \/ /\ filename = NULL
        /\ logfile' = NULL
        /\ UNCHANGED <<written, open_handles, proc>>
     \/ /\ filename \in Locations
        /\ \/ /\ logfile' = filename
              /\ written' = <<>>
              /\ open_handles' = open_handles + 1
           \/ /\ logfile' = NULL
              /\ UNCHANGED <<written, open_handles>>
        /\ UNCHANGED proc
     \/ /\ filename = DANGLING
        /\ \/ /\ proc' = "crashed"
              /\ UNCHANGED <<logfile, written, open_handles>>
           \/ /\ logfile' = NULL
              /\ UNCHANGED <<written, open_handles, proc>>
           \/ /\ \E l \in Locations : logfile' = l
              /\ written' = <<>>
              /\ open_handles' = open_handles + 1
              /\ UNCHANGED proc
  /\ run' = [dest |-> filename, fopen_ok |-> logfile' # NULL, base |-> frame_num]

\* stop closing the file and keeping the stale handle
gst_videocrc_stop_KeepsHandle ==
  /\ IF logfile # NULL
       THEN /\ logfile' = logfile
            /\ open_handles' = open_handles - 1
       ELSE UNCHANGED <<logfile, open_handles>>
  /\ written' = <<>>
  /\ run' = NoRun

\* gst_videocrc_stop: fclose and clear the handle when one is held; the closed
\* file and the run that ended leave the state
gst_videocrc_stop ==
  /\ IF logfile # NULL
       THEN /\ logfile' = NULL
            /\ open_handles' = open_handles - 1
       ELSE UNCHANGED <<logfile, open_handles>>
  /\ written' = <<>>
  /\ run' = NoRun

(* ----------------------------- the lifecycle --------------------------- *)
\* The state changes of the element. The base class calls start inside the
\* change from READY to PAUSED and stop inside the change from PAUSED to
\* READY; the new state is stored under the object lock.
NullToReady ==
  /\ proc = "running" /\ object_lock = FALSE
  /\ state = "NULL"
  /\ state' = "READY"
  /\ UNCHANGED <<engine, logfile, filename, geometry, object_lock, setloc,
                 written, trace, mapped, open_handles, run, call, proc>>

ReadyToPaused ==
  /\ proc = "running" /\ object_lock = FALSE
  /\ state = "READY"
  /\ gst_videocrc_start
  /\ state' = IF proc' = "crashed" THEN state ELSE "PAUSED"
  /\ UNCHANGED <<engine, filename, geometry, object_lock, setloc, trace,
                 mapped, call>>

PausedToPlaying ==
  /\ proc = "running" /\ object_lock = FALSE
  /\ state = "PAUSED"
  /\ state' = "PLAYING"
  /\ UNCHANGED <<engine, logfile, filename, geometry, object_lock, setloc,
                 written, trace, mapped, open_handles, run, call, proc>>

PlayingToPaused ==
  /\ proc = "running" /\ object_lock = FALSE
  /\ state = "PLAYING"
  /\ state' = "PAUSED"
  /\ UNCHANGED <<engine, logfile, filename, geometry, object_lock, setloc,
                 written, trace, mapped, open_handles, run, call, proc>>

PausedToReady ==
  /\ proc = "running" /\ object_lock = FALSE
  /\ state = "PAUSED"
  /\ gst_videocrc_stop
  /\ state' = "READY"
  /\ UNCHANGED <<engine, filename, geometry, object_lock, setloc, trace,
                 mapped, call, proc>>

ReadyToNull ==
  /\ proc = "running" /\ object_lock = FALSE
  /\ state = "READY"
  /\ state' = "NULL"
  /\ UNCHANGED <<engine, logfile, filename, geometry, object_lock, setloc,
                 written, trace, mapped, open_handles, run, call, proc>>

(* --------------------------- format negotiation ------------------------ *)
\* gst_videocrc_set_info: the geometry of a negotiated format
gst_videocrc_set_info ==
  /\ proc = "running"
  /\ state \in Streaming
  /\ \E w \in 0..MaxWidth, h \in 0..MaxHeight :
       /\ width' = w
       /\ height' = h
       /\ stride_w' = ALIGN(w, ALIGN128)
       /\ stride_h' = ALIGN(h, ALIGN32)
       /\ offset' = InfoPlaneOffset(w, h)
       /\ size' = InfoSize(w, h)
  /\ UNCHANGED <<engine, logfile, filename, state, object_lock, setloc, written,
                 trace, mapped, open_handles, run, call, proc>>

(* --------------------------- the per-frame step ------------------------ *)
\* the counter incremented twice for a frame
NextFrameNum_Twice(n) == n + 2

\* videocrc->frame_num ++
NextFrameNum(n) == n + 1

\* the first k elements of a sequence (none when k <= 0)
Take(seq, k) ==
  SubSeq(seq, 1, IF k < 0 THEN 0 ELSE IF k > Len(seq) THEN Len(seq) ELSE k)

\* gst_videocrc_transform_frame_ip on one buffer. A record line
\* "VideoFrame <frame_num> crc <crc>" is kept as its frame number; the
\* checksum it carries is the value of crc when it is written. The buffer carries ion
\* metadata (fd, size, offset) or not; mmap, or gst_buffer_map, succeeds or
\* fails, and the code reads through the pointer it got either way. A read
\* outside a mapped view is undefined behaviour: it faults, or it returns
\* whatever byte lies there. After a failed gst_buffer_map the loop bound
\* map_info.size is whatever the structure held.
gst_videocrc_transform_frame_ip ==
  /\ proc = "running"
  /\ state \in Streaming
  /\ frame_num < MaxFrames
  /\ \E ion \in BOOLEAN, map_ok \in BOOLEAN, d \in FrameData :
     \E vsize \in (IF ion THEN IonSizes ELSE LinearSizes) :
     \* the offsets each loop reads, all of them in program order, and the
     \* positions of those that fall outside a mapped view
     \E luma \in {IF ion THEN LumaOffsets(width, height, stride_w) ELSE <<>>},
        cb \in {IF ion THEN CbOffsets(width, height, stride_w, stride_h, offset)
                       ELSE <<>>},
        cr \in {IF ion THEN CrOffsets(width, height, stride_w, stride_h, offset)
                       ELSE <<>>},
        linear \in {IF ion THEN <<>> ELSE LinearOffsets(vsize)} :
     \E reads \in {luma \o cb \o cr \o linear} :
     \E Bad \in {{n \in 1..Len(reads) : ~(map_ok /\ reads[n] < vsize)}} :
       LET CRC32Table == TableOf[crc32bit_table]
           Valid(o) == map_ok /\ o < vsize
           seen == [path |-> IF ion THEN "ion" ELSE "linear",
                    map_ok |-> map_ok, vsize |-> vsize,
                    width |-> width, height |-> height,
                    stride_w |-> stride_w, stride_h |-> stride_h,
                    offset |-> offset]
           \* the call returns; a read outside the view returned g
           Return(g) ==
             LET Bytes(offs) ==
                   [n \in 1..Len(offs) |->
                      IF Valid(offs[n]) THEN FrameByte(d, offs[n]) ELSE g]
                 CRC == IF ion
                          THEN CrcPass(CrcPass(CrcPass(Zero32, Bytes(luma), CRC32Table),
                                               Bytes(cb), CRC32Table),
                                       Bytes(cr), CRC32Table)
                          ELSE CrcPass(Zero32, Bytes(linear), CRC32Table)
             IN  /\ crc' = CRC
                 /\ frame_num' = NextFrameNum(frame_num)
                 /\ trace' = Append(trace, frame_num')
                 /\ written' = IF logfile # NULL
                                 THEN Append(written, frame_num')
                                 ELSE written
                 /\ mapped' = mapped
                 /\ call' = seen @@ [luma |-> luma, cb |-> cb, cr |-> cr,
                                     linear |-> linear, released |-> TRUE,
                                     ret |-> "GST_FLOW_OK", emitted |-> TRUE,
                                     logged |-> logfile # NULL]
                 /\ UNCHANGED proc
           \* the first read outside the view faults
           Fault ==
             LET k == CHOOSE n \in Bad : \A m \in Bad : n <= m
             IN  /\ proc' = "crashed"
                 /\ crc' = Zero32
                 /\ mapped' = mapped + (IF map_ok THEN 1 ELSE 0)
                 /\ call' = seen @@
                      [luma |-> Take(luma, k),
                       cb |-> Take(cb, k - Len(luma)),
                       cr |-> Take(cr, k - Len(luma) - Len(cb)),
                       linear |-> Take(linear, k),
                       released |-> FALSE, ret |-> "none",
                       emitted |-> FALSE, logged |-> FALSE]
                 /\ UNCHANGED <<frame_num, trace, written>>
       IN  IF Bad = {}
             THEN Return(0)
             ELSE Fault \/ \E g \in Garbage : Return(g)
  /\ UNCHANGED <<crc_mask, crc32bit_table, logfile, filename, geometry, state,
                 object_lock, setloc, open_handles, run>>

(* ---------------------------- specifications --------------------------- *)
Lifecycle ==
  \/ NullToReady
  \/ ReadyToPaused
  \/ PausedToPlaying
  \/ PlayingToPaused
  \/ PausedToReady
  \/ ReadyToNull

\* the lifecycle, the two properties and the frames
Next ==
  \/ Lifecycle
  \/ SetCrcMask
  \/ SetLocationLock
  \/ SetLocationCheck
  \/ SetLocationFree
  \/ SetLocationStore
  \/ gst_videocrc_transform_frame_ip

Spec == Init /\ [][Next]_vars

\* the element as a start without a log destination leaves it: streaming,
\* no handle held
InitEngine ==
  /\ crc_mask = GST_VIDEO_DEFAULT_CRC_MASK
  /\ frame_num = 0
  /\ crc = Zero32
  /\ logfile = NULL
  /\ crc32bit_table = crc_mask
  /\ filename = NULL
  /\ width = 0 /\ height = 0 /\ stride_w = 0 /\ stride_h = 0
  /\ offset = 0 /\ size = 0
  /\ state = "PAUSED"
  /\ object_lock = FALSE
  /\ sl_pc = "idle" /\ sl_state = "NULL" /\ sl_location = NULL /\ sl_ret = "none"
  /\ written = <<>>
  /\ trace = <<>>
  /\ mapped = 0
  /\ open_handles = 0
  /\ run = [dest |-> NULL, fopen_ok |-> FALSE, base |-> 0]
  /\ call = NoCall
  /\ proc = "running"

\* format negotiation and the frames of a streaming element
NextEngine ==
  \/ gst_videocrc_set_info
  \/ gst_videocrc_transform_frame_ip

SpecEngine == InitEngine /\ [][NextEngine]_vars

(* ------------------------ the location property ------------------------ *)
\* a step of gst_videocrc_set_location that leaves position at
SetLocationStep(at) == sl_pc = at /\ sl_pc' # at

\* C1: a request to change the location made while the element is PAUSED or
\* PLAYING returns FALSE and leaves filename as it was; made in NULL or READY
\* it goes on, and when it returns it returns TRUE with filename the
\* requested value (NULL when NULL was given).
C1_SetLocationContract ==
  [][ /\ (SetLocationStep("locked") /\ state \in Streaming)
           => (sl_pc' = "idle" /\ sl_ret' = "FALSE" /\ filename' = filename)
      /\ (SetLocationStep("locked") /\ state \notin Streaming)
           => sl_pc' = "free"
      /\ SetLocationStep("store")
           => (sl_pc' = "idle" /\ sl_ret' = "TRUE" /\ filename' = sl_location)
    ]_vars

\* a request was rejected while streaming, with a destination stored
C1_Witness ==
  /\ sl_pc = "idle" /\ sl_ret = "FALSE"
  /\ state \in Streaming
  /\ filename \in Locations

\* C2: once the element is PAUSED or PLAYING (start has run), no step frees
\* or replaces the stored filename.
C2_FilenameStableWhileProcessing ==
  [][(state \in Streaming) => (filename' = filename)]_vars

(* --------------------------- the frame counter -------------------------- *)
\* C6: the records emitted so far carry the frame numbers 1, 2, ..., N in
\* that order, and the counter stands at N: one increment per frame, made
\* before the record is written, and none by stop or start.
C6_FrameIndices ==
  /\ frame_num = Len(trace)
  /\ \A k \in 1..Len(trace) : trace[k] = k

\* two frames were recorded, the second one in a later run than the first
C6_Witness ==
  /\ Len(trace) = 2
  /\ run.base = 1

(* ------------------------- the crc-mask property ------------------------ *)
\* C7: the first frame is checksummed with the table generated from the
\* polynomial that crc-mask holds when it is processed.
C7_TableFollowsMask ==
  [][(frame_num = 0 /\ frame_num' = 1)
       => (TableOf[crc32bit_table] = gst_videocrc_init_crc32bit_table(crc_mask))
    ]_vars

(* ------------------------------ the log file ---------------------------- *)
\* the frame numbers base + 1, ..., n
FramesAfter(base, n) == [k \in 1..(n - base) |-> base + k]

CallReads == call.luma \o call.cb \o call.cr \o call.linear

\* C3: a frame whose hardware buffer could not be mapped is reported as a
\* failure: the call does not return GST_FLOW_OK and emits no record.
C3_MapFailureReported ==
  (call.path = "ion" /\ ~call.map_ok)
    => (call.ret # "GST_FLOW_OK" /\ ~call.emitted)

\* C4: every offset read from a mapped view, in planar and in linear mode,
\* is less than the size of the view.
C4_ReadsInsideView ==
  call.map_ok => \A n \in 1..Len(CallReads) : CallReads[n] < call.vsize

\* C5: a release is issued only for a view that was acquired, and while the
\* element runs no mapping is outstanding between frames.
C5_AcquireRelease ==
  /\ call.released => call.map_ok
  /\ proc = "running" => mapped = 0

(* -------------------------- the planar traversal ------------------------ *)
\* C8 as amended: for every row in 0..height/2 and every even column in
\* 0..width the Cb byte is read at stride_w * stride_h + row * stride_w +
\* column and the Cr byte at that offset + 1, in row-major order and nowhere
\* else, whatever second-plane offset set_info stored.
C8_ChromaOffsets ==
  call.path = "ion" =>
    LET cols == (call.width + 1) \div 2
        rows == call.height \div 2
        base == call.stride_w * call.stride_h
        At(row, col) == base + row * call.stride_w + col
        Pos(row, col) == row * cols + (col \div 2) + 1
    IN  /\ call.ret = "GST_FLOW_OK"
             => (Len(call.cb) = rows * cols /\ Len(call.cr) = rows * cols)
        /\ \A row \in 0..(rows - 1) :
             \A col \in {c \in 0..(call.width - 1) : c % 2 = 0} :
               /\ Pos(row, col) <= Len(call.cb)
                    => call.cb[Pos(row, col)] = At(row, col)
               /\ Pos(row, col) <= Len(call.cr)
                    => call.cr[Pos(row, col)] = At(row, col) + 1
        /\ Len(call.cb) <= rows * cols /\ Len(call.cr) <= rows * cols
        /\ call.stride_w = ALIGN(call.width, ALIGN128)
        /\ call.stride_h = ALIGN(call.height, ALIGN32)

\* a frame with two chroma rows and two chroma columns was read to the end,
\* under a format whose second plane does not start at stride_w * stride_h
C8_Witness ==
  /\ call.path = "ion" /\ call.ret = "GST_FLOW_OK"
  /\ call.width = 3 /\ call.height = 4
  /\ Len(call.cb) = 4 /\ Len(call.cr) = 4
  /\ call.offset # call.stride_w * call.stride_h

\* C8 as stated: in a planar call on a mapped view that returns, the Cb byte
\* is read at the second-plane offset set_info stored + row * stride_w +
\* column, and the Cr byte at that offset + 1.
C8_ChromaAtNegotiatedOffset ==
  (call.path = "ion" /\ call.map_ok /\ call.ret = "GST_FLOW_OK") =>
    LET cols == (call.width + 1) \div 2
        rows == call.height \div 2
        At(row, col) == call.offset + row * call.stride_w + col
        Pos(row, col) == row * cols + (col \div 2) + 1
    IN  \A row \in 0..(rows - 1) :
          \A col \in {c \in 0..(call.width - 1) : c % 2 = 0} :
            /\ Pos(row, col) <= Len(call.cb)
                 => call.cb[Pos(row, col)] = At(row, col)
            /\ Pos(row, col) <= Len(call.cr)
                 => call.cr[Pos(row, col)] = At(row, col) + 1

\* C9: a planar call on a mapped view that returns has read, for each row in
\* 0..height and each column in 0..width, the luma byte at row * stride_w +
\* column, once each and in row-major order.
C9_LumaCoversWidth ==
  (call.path = "ion" /\ call.map_ok /\ call.ret = "GST_FLOW_OK")
    => call.luma = [n \in 1..(call.height * call.width) |->
                      ((n - 1) \div call.width) * call.stride_w
                        + ((n - 1) % call.width)]

=============================================================================
